---- MODULE Spec2Model ----
(***************************************************************************)
(* wp.api.WPApiBaseCollection (js/collections.js): the pagination state    *)
(* kept by sync/more/hasMore and the sort-on-change activation, as a state *)
(* machine.  The transport (Backbone.sync, the server) is the environment: *)
(* it holds the requests in flight and answers or fails each of them at    *)
(* any later time, in any order.                                           *)
(***************************************************************************)
EXTENDS Integers, Sequences, FiniteSets, TLC

VARIABLES
    state,          \* this.state: data, currentPage, totalPages, totalObjects
    initializedSortOnChange,    \* this._initializedSortOnChange
    comparator,     \* this.comparator: "none" or "default"
    handlers,       \* number of 'sync change' subscriptions made so far
    models,         \* this.models: each member's orderby attribute, or Missing
    inflight,       \* reads handed to Backbone.sync and not yet answered
    nextId,         \* issue number of the next request
    done,           \* issue numbers of the reads whose success handler has run
    lastDone,       \* page of the most recent read that completed successfully
    serverPages,    \* total page count a server with a fixed collection reports
    others,         \* create/update/delete requests handed to Backbone.sync
    reused,         \* options.data of an options object the caller keeps
    ev              \* the operation that produced this state, with its inputs

\* the sort-on-change fields and the members
sortFields == <<initializedSortOnChange, comparator, handlers, models>>

\* what the reads of a collection leave alone
extra == <<others, reused>>

vars ==
    <<state, sortFields, inflight, nextId, done, lastDone, serverPages, extra,
      ev>>

----------------------------------------------------------------------------
(* Bounds *)

MaxPage == 2            \* callers ask for pages 1..MaxPage
MaxTotalPages == 2      \* the server reports 0..MaxTotalPages pages
MaxObjects == 97        \* the server reports MaxObjects objects
MaxServerPages == 5     \* page count of the fixed collection walked in sequence
MaxReqs == 2            \* sync calls per behaviour
MaxValue == 2           \* members' attribute values are 1..MaxValue
MaxMembers == 3         \* members of a collection that is sorted

----------------------------------------------------------------------------
(* JavaScript values: null, NaN and numbers *)

Null == <<"null">>
NaN == <<"NaN">>
Num(n) == <<"num", n>>
IsNum(v) == Len(v) = 2
Val(v) == v[2]

\* a < b on numbers; every comparison with NaN is false
Less(a, b) == IsNum(a) /\ IsNum(b) /\ Val(a) < Val(b)
\* a <= b on numbers; every comparison with NaN is false
LessEq(a, b) == IsNum(a) /\ IsNum(b) /\ Val(a) <= Val(b)

----------------------------------------------------------------------------
(* Response headers are strings: sequences of characters *)

Digits == <<"0", "1", "2", "3", "4", "5", "6", "7", "8", "9">>
IsDigit(c) == \E d \in 1..10 : Digits[d] = c
DigitVal(c) == (CHOOSE d \in 1..10 : Digits[d] = c) - 1

RECURSIVE Numeral(_)
\* the decimal rendition of n >= 0 the server puts in a header
Numeral(n) ==
    IF n < 10 THEN <<Digits[n + 1]>>
    ELSE Append(Numeral(n \div 10), Digits[(n % 10) + 1])

\* request.getResponseHeader of a header the response lacks is null, which
\* parseInt reads as the string "null"
NoHeader == <<"n", "u", "l", "l">>

RECURSIVE SkipSpace(_)
SkipSpace(s) == IF s # <<>> /\ Head(s) = " " THEN SkipSpace(Tail(s)) ELSE s

RECURSIVE DigitPrefix(_)
DigitPrefix(s) ==
    IF s # <<>> /\ IsDigit(Head(s)) THEN <<Head(s)>> \o DigitPrefix(Tail(s))
    ELSE <<>>

RECURSIVE Decimal(_)
Decimal(ds) ==
    IF ds = <<>> THEN 0
    ELSE 10 * Decimal(SubSeq(ds, 1, Len(ds) - 1)) + DigitVal(ds[Len(ds)])

\* parseInt( s, 10 ): leading blanks, an optional sign, the longest run of
\* digits; NaN when there is no digit
ParseInt(s) ==
    LET t == SkipSpace(s)
        neg == t # <<>> /\ Head(t) = "-"
        u == IF t # <<>> /\ Head(t) \in {"+", "-"} THEN Tail(t) ELSE t
        ds == DigitPrefix(u)
    IN  IF ds = <<>> THEN NaN
        ELSE Num(IF neg THEN 0 - Decimal(ds) ELSE Decimal(ds))

----------------------------------------------------------------------------
(* Query parameters: mappings from keys to values *)

Pages == 1..MaxPage
EmptyData == [k \in {} |-> 0]

\* the data mappings callers pass: any page or none, with or without an
\* orderby
PageParts == {EmptyData} \cup {"page" :> Num(p) : p \in Pages}
OrderParts == {EmptyData, "orderby" :> "date"}
DataSet == {a @@ b : a \in PageParts, b \in OrderParts}

Has(d, k) == k \in DOMAIN d
Without(d, k) == [j \in DOMAIN d \ {k} |-> d[j]]
With(d, k, v) == [j \in DOMAIN d \cup {k} |-> IF j = k THEN v ELSE d[j]]

\* _.extend( target, source ): source's keys overwrite target's
Extend(target, source) ==
    [k \in DOMAIN target \cup DOMAIN source |->
        IF k \in DOMAIN source THEN source[k] ELSE target[k]]

\* an options object: data present or absent
NoOptions == [hasData |-> FALSE, data |-> EmptyData]
WithData(d) == [hasData |-> TRUE, data |-> d]
OptionSet == {NoOptions} \cup {WithData(d) : d \in DataSet}

\* the options callers pass to more(): none, a page, or parameters of
\* their own
MoreOptionSet ==
    {NoOptions} \cup
    {WithData(d) : d \in (PageParts \cup OrderParts) \ {EmptyData}}

\* options.data.page, undefined (here Null) without the key
PageOf(d) == IF Has(d, "page") THEN d["page"] ELSE Null

----------------------------------------------------------------------------
(* Members and sorting *)

Undefined == <<"undefined">>

\* the member lists a constructor or a response body carries: each member
\* is the value of its "date" attribute, or Undefined when it has none
Bodies == {<<>>, <<Num(2), Num(1)>>, <<Num(1), Undefined>>}

\* defaultComparator throws: no orderby in the stored parameters, or a
\* member without the attribute
ComparatorThrows(d, a, b) ==
    \/ ~Has(d, "orderby")
    \/ a = Undefined
    \/ b = Undefined

\* faulty variant of defaultComparator: the order is never inverted
defaultComparatorNeverInverts(d, a, b) ==
    IF Val(a) = Val(b) THEN 0
    ELSE IF Val(a) < Val(b) THEN -1 ELSE 1

\* defaultComparator( a, b ) where it returns
defaultComparator(d, a, b) ==
    LET result == IF Val(a) = Val(b) THEN 0
                  ELSE IF Val(a) < Val(b) THEN -1 ELSE 1
    IN  IF Has(d, "order") /\ d["order"] = "desc" THEN result * (-1) ELSE result

\* collection.sort() aborts: Array.prototype.sort compares every member of
\* a list of two or more at least once
SortThrows(d, ms) ==
    /\ Len(ms) >= 2
    /\ \E i, j \in 1..Len(ms) : i # j /\ ComparatorThrows(d, ms[i], ms[j])

RECURSIVE Insert(_, _, _)
Insert(d, m, sorted) ==
    IF sorted = <<>> THEN <<m>>
    ELSE IF defaultComparator(d, m, Head(sorted)) < 0 THEN <<m>> \o sorted
    ELSE <<Head(sorted)>> \o Insert(d, m, Tail(sorted))

RECURSIVE Sort(_, _)
\* collection.sort() with the default comparator, where it returns (stable)
Sort(d, ms) ==
    IF ms = <<>> THEN <<>>
    ELSE Insert(d, ms[Len(ms)], Sort(d, SubSeq(ms, 1, Len(ms) - 1)))

\* _initSortOnChange on a collection with parameters d: the fields it leaves
\* and whether its sort() threw
initSortOnChange(d, flag, cmp, subs, ms) ==
    IF flag \/ ~Has(d, "orderby")
    THEN [initializedSortOnChange |-> flag, comparator |-> cmp,
          handlers |-> subs, models |-> ms, threw |-> FALSE, result |-> FALSE]
    ELSE IF SortThrows(d, ms)
    THEN [initializedSortOnChange |-> flag, comparator |-> "default",
          handlers |-> subs + 1, models |-> ms, threw |-> TRUE,
          result |-> FALSE]
    ELSE [initializedSortOnChange |-> TRUE, comparator |-> "default",
          handlers |-> subs + 1, models |-> Sort(d, ms), threw |-> FALSE,
          result |-> TRUE]

\* Backbone's set( models ): the collection takes the members and, having a
\* comparator, sorts them; a throwing sort leaves them as added
SetModels(d, cmp, ms) ==
    IF cmp = "default" /\ ~SortThrows(d, ms) THEN Sort(d, ms) ELSE ms

----------------------------------------------------------------------------
(* The pagination state and the functions that compute it *)

JsTrue == <<"true">>
JsFalse == <<"false">>
Bool(b) == IF b THEN JsTrue ELSE JsFalse
Falsy(v) == v \in {Null, JsFalse}

\* initialize( models, options ): the default state, seeded with options.data
initialize(options) ==
    [data |-> Extend(EmptyData, options.data),
     currentPage |-> Null, totalPages |-> Null, totalObjects |-> Null]

\* faulty variant of syncData: the page stays in the stored parameters
syncDataKeepsPage(options) ==
    IF options.hasData THEN options.data ELSE EmptyData

\* sync, method 'read': the stored parameters are a copy of options.data
\* without its page, or empty when the options carry no data
syncData(options) ==
    IF options.hasData THEN Without(options.data, "page") ELSE EmptyData

\* faulty variant of syncPage: the placeholder is the page itself
syncPageNoPlaceholder(st, options) ==
    IF PageOf(options.data) = Null
    THEN [st EXCEPT !.currentPage = Null, !.totalPages = Null,
                    !.totalObjects = Null]
    ELSE [st EXCEPT !.currentPage = PageOf(options.data)]

\* faulty variant of syncPage: a read without a page resets currentPage only
syncPageKeepsTotals(st, options) ==
    IF PageOf(options.data) = Null
    THEN [st EXCEPT !.currentPage = Null]
    ELSE [st EXCEPT !.currentPage = Num(Val(PageOf(options.data)) - 1)]

\* sync, method 'read': the counters before the request is sent
syncPage(st, options) ==
    IF PageOf(options.data) = Null
    THEN [st EXCEPT !.currentPage = Null, !.totalPages = Null,
                    !.totalObjects = Null]
    ELSE [st EXCEPT !.currentPage = Num(Val(PageOf(options.data)) - 1)]

\* faulty variant of syncState: every method rewrites the state
syncStateAnyMethod(method, st, options) ==
    syncPage([st EXCEPT !.data = syncData(options)], options)

\* sync( method, model, options ): the state it leaves before the request is
\* sent; only method 'read' touches it
syncState(method, st, options) ==
    IF method = "read"
    THEN syncPage([st EXCEPT !.data = syncData(options)], options)
    ELSE st

\* currentPage++
Increment(v) == IF IsNum(v) THEN Num(Val(v) + 1) ELSE NaN

\* faulty variant of onSuccess: totals already known are kept
onSuccessFirstTotalsWin(st, hdrPages, hdrObjects) ==
    [st EXCEPT !.totalPages = IF st.totalPages = Null THEN ParseInt(hdrPages)
                              ELSE st.totalPages,
               !.totalObjects = IF st.totalObjects = Null
                                THEN ParseInt(hdrObjects)
                                ELSE st.totalObjects,
               !.currentPage = IF st.currentPage = Null THEN Num(1)
                               ELSE Increment(st.currentPage)]

\* faulty variant of onSuccess: a header that is no number stops the handler
onSuccessStopsOnNaN(st, hdrPages, hdrObjects) ==
    IF ParseInt(hdrPages) = NaN \/ ParseInt(hdrObjects) = NaN THEN st
    ELSE [st EXCEPT !.totalPages = ParseInt(hdrPages),
                    !.totalObjects = ParseInt(hdrObjects),
                    !.currentPage = IF st.currentPage = Null THEN Num(1)
                                    ELSE Increment(st.currentPage)]

\* the success wrapper sync installs: totals from the two headers, then the
\* page counter
onSuccess(st, hdrPages, hdrObjects) ==
    [st EXCEPT !.totalPages = ParseInt(hdrPages),
               !.totalObjects = ParseInt(hdrObjects),
               !.currentPage = IF st.currentPage = Null THEN Num(1)
                               ELSE Increment(st.currentPage)]

\* faulty variant of hasMore: the last page counts as having a successor
hasMoreInclusive(st) ==
    IF \/ st.totalPages = Null
       \/ st.totalObjects = Null
       \/ st.currentPage = Null
    THEN Null
    ELSE Bool(Less(st.currentPage, Increment(st.totalPages)))

\* hasMore(): null, true or false
hasMore(st) ==
    IF \/ st.totalPages = Null
       \/ st.totalObjects = Null
       \/ st.currentPage = Null
    THEN Null
    ELSE Bool(Less(st.currentPage, st.totalPages))

\* faulty variant of moreData: the caller's values override the stored ones
moreDataCallerWins(options, st) == Extend(st.data, options.data)

\* more(): the options data after _.extend( options.data, this.state.data )
moreData(options, st) == Extend(options.data, st.data)

\* faulty variant of morePage: the page after the next
morePageSkips(st) ==
    IF st.currentPage = Null \/ LessEq(st.currentPage, Num(1))
    THEN Num(2)
    ELSE Increment(Increment(st.currentPage))

\* more(): the page it asks for when the merged data names none
morePage(st) ==
    IF st.currentPage = Null \/ LessEq(st.currentPage, Num(1))
    THEN Num(2)
    ELSE Increment(st.currentPage)

----------------------------------------------------------------------------
(* The transport's answers *)

PageHeaders == {Numeral(n) : n \in 0..MaxTotalPages} \cup {NoHeader}
ObjectHeaders == {Numeral(MaxObjects), NoHeader}

\* the header pairs (x-wp-totalpages, x-wp-total) of the responses: any page
\* header with an object count, or a page count without an object count
Responses ==
    {<<hp, Numeral(MaxObjects)>> : hp \in PageHeaders}
        \cup {<<Numeral(1), NoHeader>>}

----------------------------------------------------------------------------
(* Operations *)

Sent == <<"sent">>
Threw == <<"threw">>
Applied == <<"applied">>
Failed == <<"failed">>

\* the success wrapper's last statement: the caller's success callback, when
\* there is one, is applied to the wrapper's own arguments; the value is the
\* list of the invocations made
callSuccess(hasSuccess, args) == IF hasSuccess THEN <<args>> ELSE <<>>

\* data is the options.data the operation leaves (the request's data, when
\* one is issued), calls the invocations of the caller's success callback
Event(op, id, options, page, pre, hp, ho, result, data, calls) ==
    [op |-> op, id |-> id, callerPage |-> Has(options.data, "page"),
     caller |-> options.data, page |-> page, prePage |-> pre.currentPage,
     hdrPages |-> hp, hdrObjects |-> ho, result |-> result, data |-> data,
     calls |-> calls]

\* new Collection( ms, options ): Backbone runs initialize on the empty
\* collection, then adds the members (sorting them under a comparator); a
\* constructor whose sort throws yields no collection
Construct(options, ms) ==
    LET st == initialize(options)
        act == initSortOnChange(st.data, FALSE, "none", 0, <<>>)
    IN  /\ ~(act.comparator = "default" /\ SortThrows(st.data, ms))
        /\ state = st
        /\ initializedSortOnChange = act.initializedSortOnChange
        /\ comparator = act.comparator
        /\ handlers = act.handlers
        /\ models = SetModels(st.data, act.comparator, ms)
        /\ inflight = {}
        /\ nextId = 1
        /\ done = {}
        /\ lastDone = Null
        /\ others = {}
        /\ ev = Event("initialize", 0, options, Null, st, <<>>, <<>>, Applied,
                      EmptyData, <<>>)

Init ==
    /\ serverPages = 0
    /\ reused = EmptyData
    /\ \E options \in OptionSet, ms \in Bodies : Construct(options, ms)

\* sync( 'read', model, options ) as called by op ("fetch" or "more") with
\* the caller's options callerOptions: the state is rewritten, sort-on-change
\* is armed and, unless its sort throws, the request goes to Backbone.sync
sync(op, callerOptions, options) ==
    LET st == syncState("read", state, options)
        act == initSortOnChange(st.data, initializedSortOnChange, comparator,
                                handlers, models)
    IN  /\ state' = st
        /\ initializedSortOnChange' = act.initializedSortOnChange
        /\ comparator' = act.comparator
        /\ handlers' = act.handlers
        /\ models' = act.models
        /\ inflight' = IF act.threw THEN inflight
                       ELSE inflight \cup {[id |-> nextId,
                                            page |-> PageOf(options.data)]}
        /\ nextId' = nextId + 1
        /\ ev' = Event(op, nextId, callerOptions, PageOf(options.data), state,
                       <<>>, <<>>, IF act.threw THEN Threw ELSE Sent,
                       options.data, <<>>)
        /\ UNCHANGED <<done, lastDone, serverPages>>

\* collection.fetch( options ): Backbone hands the options to sync
Fetch(options) == sync("fetch", options, options)

\* collection.more( options )
more(options) ==
    LET data == moreData(options, state)
    IN  IF ~Has(data, "page")
        THEN IF Falsy(hasMore(state))
             THEN /\ ev' = Event("more", 0, options, Null, state, <<>>, <<>>,
                                 JsFalse, data, <<>>)
                  /\ UNCHANGED <<state, sortFields, inflight, nextId, done, lastDone,
                                 serverPages>>
             ELSE sync("more", options,
                       WithData(With(data, "page", morePage(state))))
        ELSE sync("more", options, WithData(data))

\* collection.hasMore()
HasMore ==
    /\ ev' = Event("hasMore", 0, NoOptions, Null, state, <<>>, <<>>,
                   hasMore(state), EmptyData, <<>>)
    /\ UNCHANGED <<state, sortFields, inflight, nextId, done, lastDone,
                   serverPages>>

\* the transport answers request r: the success wrapper updates the state,
\* then Backbone's own success callback puts the body into the collection
Success(r, hdrPages, hdrObjects, body) ==
    /\ r \in inflight
    /\ state' = onSuccess(state, hdrPages, hdrObjects)
    /\ models' = SetModels(state.data, comparator, body)
    /\ inflight' = inflight \ {r}
    /\ done' = done \cup {r.id}
    /\ lastDone' = IF r.page = Null THEN Num(1) ELSE r.page
    /\ ev' = Event("success", r.id, NoOptions, r.page, state, hdrPages,
                   hdrObjects, Applied, EmptyData,
                   callSuccess(TRUE, <<body, hdrPages, hdrObjects>>))
    /\ UNCHANGED <<initializedSortOnChange, comparator, handlers, nextId,
                   serverPages>>

\* the transport reports an error for request r: no success callback runs
Error(r) ==
    /\ r \in inflight
    /\ inflight' = inflight \ {r}
    /\ ev' = Event("error", r.id, NoOptions, r.page, state, <<>>, <<>>, Failed,
                   EmptyData, <<>>)
    /\ UNCHANGED <<state, sortFields, nextId, done, lastDone, serverPages>>

Next ==
    \/ \E options \in OptionSet :
          nextId <= MaxReqs /\ Fetch(options) /\ UNCHANGED extra
    \/ \E options \in MoreOptionSet :
          nextId <= MaxReqs /\ more(options) /\ UNCHANGED extra
    \/ HasMore /\ UNCHANGED extra
    \/ \E r \in inflight, h \in Responses, body \in Bodies \ {<<>>} :
          Success(r, h[1], h[2], body) /\ UNCHANGED extra
    \/ \E r \in inflight : Error(r) /\ UNCHANGED extra

Spec == Init /\ [][Next]_vars

----------------------------------------------------------------------------
(* Sequential pagination: one read, then more() after each success, against *)
(* a server whose page count stays serverPages                              *)

SeqInit ==
    /\ serverPages \in 0..MaxServerPages
    /\ reused = EmptyData
    /\ \E options \in OptionSet, ms \in Bodies : Construct(options, ms)

\* the first read: no page, or any page up to one past the last
SeqOptionSet ==
    {NoOptions} \cup
    {WithData(("page" :> Num(p)) @@ b) : p \in 1..(MaxServerPages + 1),
                                         b \in OrderParts}

SeqNext ==
    \/ \E options \in SeqOptionSet :
          nextId = 1 /\ Fetch(options) /\ UNCHANGED extra
    \/ /\ done # {}
       /\ inflight = {}
       /\ nextId <= MaxServerPages + 2
       /\ more(NoOptions)
       /\ UNCHANGED extra
    \/ \E r \in inflight, ho \in ObjectHeaders, body \in Bodies \ {<<>>} :
          Success(r, Numeral(serverPages), ho, body) /\ UNCHANGED extra

SeqSpec == SeqInit /\ [][SeqNext]_vars

----------------------------------------------------------------------------
(* Properties *)

IsSend == ev.op \in {"fetch", "more"} /\ ev.result \in {Sent, Threw}
Handed == ev.op \in {"fetch", "more"} /\ ev.result = Sent
AllUnset ==
    /\ state.currentPage = Null
    /\ state.totalPages = Null
    /\ state.totalObjects = Null

\* the number a counter stands for in JavaScript arithmetic: null counts 0
ToNumber(v) == IF v = Null THEN 0 ELSE Val(v)

\* the totals a response's well-formed headers announce are in the state
TotalsFromHeaders ==
    /\ \A n \in 0..MaxTotalPages :
          ev.hdrPages = Numeral(n) => state.totalPages = Num(n)
    /\ \A n \in {0, MaxObjects} :
          ev.hdrObjects = Numeral(n) => state.totalObjects = Num(n)

\* C1: a read issued with page p leaves currentPage = p - 1 when the request
\* is handed to the transport; once its success response is applied,
\* currentPage is the value it held just before the response plus 1 (null
\* counting 0, as it does in JavaScript arithmetic) and the totals are the
\* ones the response headers carry.
C1_PagedRead ==
    /\ (Handed /\ ev.page # Null) =>
          state.currentPage = Num(Val(ev.page) - 1)
    /\ (ev.op = "success" /\ ev.page # Null) =>
          /\ state.currentPage = Num(ToNumber(ev.prePage) + 1)
          /\ TotalsFromHeaders

C1_Witness ==
    /\ ev.op = "success"
    /\ ev.page = Num(2)
    /\ ev.prePage = Num(1)
    /\ state.currentPage = Num(2)
    /\ state.totalPages = Num(2)
    /\ state.totalObjects = Num(MaxObjects)

\* C2: a read issued without a page leaves the three counters null when
\* the request is handed to the transport, and currentPage = 1 once its
\* success response is applied, whatever other reads were issued or
\* completed in between.
C2_FreshRead ==
    /\ (Handed /\ ev.page = Null) => AllUnset
    /\ (ev.op = "success" /\ ev.page = Null) => state.currentPage = Num(1)

\* C3: in a sequential walk (one read, then more() without a page after each
\* success, the server reporting serverPages pages throughout) every request
\* more() makes is for the page after the last one fetched, which is
\* currentPage + 1 and at most serverPages; every response leaves
\* currentPage at the page it answers, one more than before; and more()
\* called with currentPage = serverPages returns false and requests nothing.
C3_SequentialWalk ==
    /\ (ev.op = "more" /\ ev.result = Sent) =>
          /\ IsNum(ev.prePage) /\ IsNum(lastDone)
          /\ ev.page = Num(Val(ev.prePage) + 1)
          /\ ev.page = Num(Val(lastDone) + 1)
          /\ Val(ev.page) <= serverPages
          /\ inflight = {[id |-> ev.id, page |-> ev.page]}
    /\ ev.op = "success" =>
          /\ state.currentPage = lastDone
          /\ state.totalPages = Num(serverPages)
          /\ ev.page # Null =>
                /\ state.currentPage = ev.page
                /\ state.currentPage = Num(Val(ev.prePage) + 1)
          /\ ev.page = Null => state.currentPage = Num(1)
    /\ (ev.op = "more" /\ ev.prePage = Num(serverPages)) =>
          /\ ev.result = JsFalse
          /\ inflight = {}
          /\ state.currentPage = Num(serverPages)

\* after a page-3 read answered 5/97, more() has requested page 4
C3_Witness ==
    /\ ev.op = "more"
    /\ ev.result = Sent
    /\ ev.page = Num(4)
    /\ lastDone = Num(3)
    /\ state.currentPage = Num(3)
    /\ state.totalPages = Num(5)
    /\ state.totalObjects = Num(MaxObjects)
    /\ hasMore(state) = JsTrue
    /\ done = {1}

\* C4: more() without a caller-supplied page issues a fetch, for page 2 when
\* currentPage is null or <= 1 and for currentPage + 1 in every other state
\* (stated for a collection whose stored parameters hold no page, where the
\* page requested is the one more() computes).
C4_MoreRequestsNextPage ==
    [][(ev'.op = "more" /\ ~ev'.callerPage /\ ~Has(state.data, "page")) =>
          /\ ev'.result = Sent
          /\ ev'.page = IF state.currentPage = Null
                           \/ Val(state.currentPage) <= 1
                        THEN Num(2)
                        ELSE Num(Val(state.currentPage) + 1)]_vars

\* C5: more() without a caller-supplied page, called while hasMore() is
\* false, returns false, starts no request and leaves the state alone.
C5_NoMoreNoRequest ==
    [][(ev'.op = "more" /\ ~ev'.callerPage /\ hasMore(state) = JsFalse) =>
          /\ ev'.result = JsFalse
          /\ UNCHANGED <<state, sortFields, inflight, nextId>>]_vars

C5_Witness ==
    /\ ev.op = "more"
    /\ ~ev.callerPage
    /\ ev.result = JsFalse
    /\ state.currentPage = Num(2)
    /\ state.totalPages = Num(2)

\* C6: hasMore() returns null when any of the three counters is null, and
\* otherwise true exactly when currentPage < totalPages; it changes nothing.
C6_HasMore ==
    [][ev'.op = "hasMore" =>
          /\ UNCHANGED <<state, sortFields, inflight, nextId>>
          /\ (\E f \in {"currentPage", "totalPages", "totalObjects"} :
                 state[f] = Null) => ev'.result = Null
          /\ (\A f \in {"currentPage", "totalPages", "totalObjects"} :
                 state[f] # Null) =>
                /\ ev'.result \in {JsTrue, JsFalse}
                /\ (ev'.result = JsTrue) =
                      (/\ IsNum(state.totalPages)
                       /\ Val(state.currentPage) < Val(state.totalPages))]_vars

C6_Witness ==
    /\ ev.op = "hasMore"
    /\ ev.result = JsTrue
    /\ state.currentPage = Num(1)
    /\ state.totalPages = Num(2)

\* C7 as claimed: the three counters are all null or all set.
C7_AllOrNone ==
    /\ (state.currentPage = Null) = (state.totalPages = Null)
    /\ (state.totalPages = Null) = (state.totalObjects = Null)

\* C7, amended: totalPages and totalObjects are null together, and
\* currentPage is set whenever they are; all three are null after
\* construction, the totals stay null until a success response is applied,
\* and issuing a read without a page makes all three null, which they stay
\* until a response is applied or a read with a page is issued.
C7_TotalsTogether ==
    /\ [](/\ (state.totalPages = Null) = (state.totalObjects = Null)
          /\ state.totalPages # Null => state.currentPage # Null
          /\ done = {} => state.totalPages = Null
          /\ ev.op = "initialize" => AllUnset
          /\ (IsSend /\ ev.page = Null) => AllUnset)
    /\ [][(AllUnset /\ ~AllUnset') =>
             \/ ev'.op = "success"
             \/ ev'.op \in {"fetch", "more"} /\ ev'.page # Null]_vars

C7_Witness ==
    /\ ev.op = "fetch"
    /\ ev.page = Null
    /\ done # {}
    /\ AllUnset

\* C8: the stored query parameters never hold a page key.
C8_NoStoredPage == ~Has(state.data, "page")

\* C9: whenever no read is in flight, currentPage is null or the page of
\* the most recent read that completed successfully (stated at the moment
\* the transport completes or fails the last read in flight).
C9_LastFetchedPage ==
    (ev.op \in {"success", "error"} /\ inflight = {}) =>
        (state.currentPage = Null \/ state.currentPage = lastDone)

\* C10: every success handler applies its own response in one step: the
\* totals in the state are those of the response applied last and
\* currentPage is stepped from the value it had, also when the response
\* answers a request issued before one that has already completed.
C10_LastResponseWins ==
    ev.op = "success" =>
        /\ state.totalPages = ParseInt(ev.hdrPages)
        /\ state.totalObjects = ParseInt(ev.hdrObjects)
        /\ state.currentPage = Num(ToNumber(ev.prePage) + 1)
        /\ ev.id \in done
        /\ \A r \in inflight : r.id # ev.id

\* an older response applied after a newer one, overwriting its totals
C10_Witness ==
    /\ ev.op = "success"
    /\ \E j \in done : j > ev.id
    /\ inflight = {}
    /\ state.totalPages = Num(1)
    /\ state.currentPage = Num(2)

\* C11: sort-on-change is activated at most once per collection: over any
\* sequence of construction and reads, aborted first sorts included, the
\* collection never holds more than one 'sync change' subscription, and once
\* activated no read changes the comparator, the subscriptions or the order
C11_ActivatedOnce ==
    /\ [](handlers <= 1)
    /\ [][(initializedSortOnChange /\ ev'.op \in {"fetch", "more"}
            /\ ev'.result \in {Sent, Threw})
          => UNCHANGED sortFields]_vars

----------------------------------------------------------------------------
(* The other methods: sync( 'create' | 'update' | 'delete', model, options ) *)

Methods == {"create", "update", "delete"}

\* the success callback of the request sync hands to Backbone.sync: its own
\* wrapper for a read, the caller's callback as it came otherwise
syncSuccess(method) == IF method = "read" THEN "wrapper" ELSE "caller"

\* sync( method, model, options ) for a method other than 'read': the
\* request goes to Backbone.sync
syncOther(method, options) ==
    /\ state' = syncState(method, state, options)
    /\ others' = others \cup {[id |-> nextId, method |-> method,
                               success |-> syncSuccess(method)]}
    /\ nextId' = nextId + 1
    /\ ev' = Event(method, nextId, options, PageOf(options.data), state,
                   <<>>, <<>>, Sent, options.data, <<>>)
    /\ UNCHANGED <<sortFields, inflight, done, lastDone, serverPages, reused>>

\* the transport answers request w of another method: the success callback
\* the request carries runs
OtherSuccess(w, hdrPages, hdrObjects, body) ==
    /\ w \in others
    /\ state' = IF w.success = "wrapper"
                THEN onSuccess(state, hdrPages, hdrObjects)
                ELSE state
    /\ others' = others \ {w}
    /\ ev' = Event("answered", w.id, NoOptions, Null, state, hdrPages,
                   hdrObjects, Applied, EmptyData,
                   callSuccess(TRUE, <<body, hdrPages, hdrObjects>>))
    /\ UNCHANGED <<sortFields, inflight, nextId, done, lastDone, serverPages,
                   reused>>

\* the transport reports an error for request w of another method
OtherError(w) ==
    /\ w \in others
    /\ others' = others \ {w}
    /\ ev' = Event("refused", w.id, NoOptions, Null, state, <<>>, <<>>,
                   Failed, EmptyData, <<>>)
    /\ UNCHANGED <<state, sortFields, inflight, nextId, done, lastDone,
                   serverPages, reused>>

\* reads and the other methods on one collection, MaxReqs requests in all
WriteNext ==
    \/ \E options \in OptionSet :
          nextId <= MaxReqs /\ Fetch(options) /\ UNCHANGED extra
    \/ \E r \in inflight, h \in Responses, body \in Bodies \ {<<>>} :
          Success(r, h[1], h[2], body) /\ UNCHANGED extra
    \/ \E r \in inflight : Error(r) /\ UNCHANGED extra
    \/ \E method \in Methods, options \in MoreOptionSet :
          nextId <= MaxReqs /\ syncOther(method, options)
    \/ \E w \in others, ho \in ObjectHeaders :
          OtherSuccess(w, Numeral(MaxTotalPages), ho, <<Num(2), Num(1)>>)
    \/ \E w \in others : OtherError(w)

WriteSpec == Init /\ [][WriteNext]_vars

\* C12: sync raises no error, whatever the method and the state: every call
\* hands its request to Backbone.sync, the read on a collection whose
\* members lack the orderby attribute included
C12_SyncRaisesNothing ==
    ev.op \in {"fetch"} \cup Methods =>
        /\ ev.result = Sent
        /\ \/ \E r \in inflight : r.id = ev.id
           \/ \E w \in others : w.id = ev.id

\* C14: sync with method create, update or delete leaves the pagination
\* state (data, currentPage, totalPages, totalObjects), the request's success
\* callback and the sort-on-change flag as they were, when the request is
\* sent and when it is answered or refused
C14_OtherMethodsTouchNothing ==
    [][(ev'.op \in Methods \cup {"answered", "refused"}) =>
         /\ UNCHANGED <<state, sortFields>>
         /\ ev'.op \in Methods =>
              \E w \in others' : /\ w.id = ev'.id
                                 /\ w.method = ev'.op
                                 /\ w.success = "caller"
         /\ ev'.op = "answered" => Len(ev'.calls) = 1]_vars

\* a request of another method was answered on a collection that had read a
\* page, knew its totals and had sort-on-change active
C14_Witness ==
    /\ ev.op = "answered"
    /\ IsNum(state.currentPage)
    /\ IsNum(state.totalPages)
    /\ Has(state.data, "orderby")
    /\ initializedSortOnChange

----------------------------------------------------------------------------
(* Responses with malformed headers: one read, answered with any pair of    *)
(* header values                                                            *)

\* header values that hold no number: the header missing, empty, or text
\* that does not start with digits
Malformed == {NoHeader, <<>>, <<"x">>, <<"-">>, <<"x", "1">>}

\* the values either header takes: a count, a count followed by text, or a
\* malformed value
HeaderSet ==
    {Numeral(n) : n \in 0..MaxTotalPages} \cup {<<"2", "x">>} \cup Malformed

HeaderNext ==
    \/ \E options \in OptionSet :
          nextId = 1 /\ Fetch(options) /\ UNCHANGED extra
    \/ \E r \in inflight, hp \in HeaderSet, ho \in HeaderSet,
          body \in Bodies \ {<<>>} :
          Success(r, hp, ho, body) /\ UNCHANGED extra

HeaderSpec == Init /\ [][HeaderNext]_vars

----------------------------------------------------------------------------
(* Merging the caller's data into the stored parameters: a read, then       *)
(* more() calls one after the other, with a filter key whose value the      *)
(* caller and the collection may disagree on                                *)

SearchParts == {EmptyData, "search" :> "a", "search" :> "b"}

\* the data of the first read
MergeOptionSet ==
    {NoOptions} \cup
    {WithData(a @@ b @@ c) : a \in PageParts, b \in OrderParts,
                             c \in SearchParts}

\* the data callers pass to more()
MergeMoreSet ==
    {NoOptions} \cup
    {WithData(b @@ c) : b \in OrderParts, c \in SearchParts} \cup
    {WithData(("page" :> Num(p)) @@ ("search" :> "b")) : p \in Pages}

MergeNext ==
    \/ \E options \in MergeOptionSet :
          nextId = 1 /\ Fetch(options) /\ UNCHANGED extra
    \/ /\ nextId > 1
       /\ inflight = {}
       /\ nextId <= MaxReqs + 1
       /\ \E options \in MergeMoreSet : more(options)
       /\ UNCHANGED extra
    \/ \E r \in inflight :
          /\ Success(r, Numeral(MaxServerPages), Numeral(MaxObjects),
                     <<Num(2), Num(1)>>)
          /\ UNCHANGED extra

MergeSpec == Init /\ [][MergeNext]_vars

\* C15: the request a more() call issues carries every stored key with the
\* stored value (the caller's value for that key is overridden), every key
\* of the caller that is not stored with the caller's value, and a page; the
\* stored parameters afterwards are the request's data without the page, so
\* every key stored before is stored after with the same value
C15_MoreMergesData ==
    [][(ev'.op = "more" /\ ev'.result \in {Sent, Threw}) =>
         /\ \A k \in DOMAIN state.data :
              Has(ev'.data, k) /\ ev'.data[k] = state.data[k]
         /\ \A k \in DOMAIN ev'.caller \ DOMAIN state.data :
              Has(ev'.data, k) /\ ev'.data[k] = ev'.caller[k]
         /\ DOMAIN ev'.data =
              DOMAIN state.data \cup DOMAIN ev'.caller \cup {"page"}
         /\ ev'.page = ev'.data["page"]
         /\ state'.data = Without(ev'.data, "page")
         /\ ev'.result = Sent =>
              inflight' = {[id |-> ev'.id, page |-> ev'.data["page"]]}
         /\ \A k \in DOMAIN state.data \ {"page"} :
              Has(state'.data, k) /\ state'.data[k] = state.data[k]]_vars

\* a more() call whose caller asked for another filter value than the stored
\* one and brought a key of its own went out with the stored filter value
C15_Witness ==
    /\ ev.op = "more"
    /\ ev.result = Sent
    /\ Has(ev.caller, "search") /\ ev.caller["search"] = "b"
    /\ Has(ev.caller, "orderby")
    /\ ev.data = ("search" :> "a") @@ ("orderby" :> "date")
                    @@ ("page" :> Num(2))
    /\ state.data = ("search" :> "a") @@ ("orderby" :> "date")

----------------------------------------------------------------------------
(* The default comparator on its own: a collection with any stored          *)
(* parameters and any members, whose members are compared and sorted        *)

\* the stored parameters a comparison sees: orderby and order, present or not
CompareData ==
    {EmptyData, "orderby" :> "date", "order" :> "desc"} \cup
    {("orderby" :> "date") @@ ("order" :> o) : o \in {"asc", "desc"}}

\* a member's attribute: a number, or Undefined when the member lacks it
Members == {Num(n) : n \in 1..MaxValue} \cup {Undefined}

MemberLists == UNION {[1..n -> Members] : n \in 0..MaxMembers}

CompareEvent(op, a, b, input, result) ==
    [op |-> op, a |-> a, b |-> b, input |-> input, result |-> result]

CompareInit ==
    /\ \E d \in CompareData :
          state = [data |-> d, currentPage |-> Null, totalPages |-> Null,
                   totalObjects |-> Null]
    /\ models \in MemberLists
    /\ initializedSortOnChange = TRUE
    /\ comparator = "default"
    /\ handlers = 1
    /\ inflight = {}
    /\ nextId = 1
    /\ done = {}
    /\ lastDone = Null
    /\ serverPages = 0
    /\ others = {}
    /\ reused = EmptyData
    /\ ev = CompareEvent("initialize", Undefined, Undefined, <<>>, Applied)

\* collection.comparator( a, b ) on two members
Compare(a, b) ==
    /\ ev' = CompareEvent("compare", a, b, <<>>,
                          IF ComparatorThrows(state.data, a, b) THEN Threw
                          ELSE Num(defaultComparator(state.data, a, b)))
    /\ UNCHANGED <<state, sortFields, inflight, nextId, done, lastDone,
                   serverPages, extra>>

\* collection.sort()
SortMembers ==
    /\ models' = IF SortThrows(state.data, models) THEN models
                 ELSE Sort(state.data, models)
    /\ ev' = CompareEvent("sort", Undefined, Undefined, models,
                          IF SortThrows(state.data, models) THEN Threw
                          ELSE Applied)
    /\ UNCHANGED <<state, initializedSortOnChange, comparator, handlers,
                   inflight, nextId, done, lastDone, serverPages, extra>>

CompareNext ==
    \/ \E i, j \in 1..Len(models) : Compare(models[i], models[j])
    \/ SortMembers

CompareSpec == CompareInit /\ [][CompareNext]_vars

Descending == Has(state.data, "order") /\ state.data["order"] = "desc"
Count(v, ms) == Cardinality({i \in 1..Len(ms) : ms[i] = v})

\* C16: the default comparator returns 0 for equal values, -1 when the
\* first precedes the second and +1 otherwise, the sign inverted exactly
\* when the stored order is 'desc'; it throws when the stored parameters
\* have no orderby or either member lacks the attribute; a sort under it
\* leaves the members non-decreasing, or non-increasing for 'desc'
C16_DefaultComparator ==
    /\ ev.op = "compare" =>
         IF \/ ~Has(state.data, "orderby")
            \/ ev.a = Undefined
            \/ ev.b = Undefined
         THEN ev.result = Threw
         ELSE ev.result =
                Num(IF Val(ev.a) = Val(ev.b) THEN 0
                    ELSE IF (Val(ev.a) < Val(ev.b)) # Descending THEN -1
                    ELSE 1)
    /\ ev.op = "sort" =>
         IF /\ Len(ev.input) >= 2
            /\ \/ ~Has(state.data, "orderby")
               \/ \E i \in 1..Len(ev.input) : ev.input[i] = Undefined
         THEN ev.result = Threw /\ models = ev.input
         ELSE /\ ev.result = Applied
              /\ Len(models) = Len(ev.input)
              /\ \A v \in Members : Count(v, models) = Count(v, ev.input)
              /\ \A i, j \in 1..Len(models) : i < j =>
                   IF Descending THEN Val(models[i]) >= Val(models[j])
                   ELSE Val(models[i]) <= Val(models[j])

\* three members out of order were sorted under order 'desc'
C16_Witness ==
    /\ ev.op = "sort"
    /\ ev.result = Applied
    /\ Descending
    /\ ev.input = <<Num(1), Num(2), Num(1)>>
    /\ models = <<Num(2), Num(1), Num(1)>>

----------------------------------------------------------------------------
(* Properties of the sort-on-change activation, failed reads and reuse *)

\* C17: once sort-on-change is active with the default comparator, the
\* stored parameters name an orderby, also after a later read whose data
\* has none: every later re-sort finds the key it sorts by
C17_ActiveSortHasOrderby ==
    (initializedSortOnChange /\ comparator = "default") =>
        Has(state.data, "orderby")

\* C18: a read whose request fails leaves currentPage as it was before the
\* read was issued (stated for the failure that follows the send at once)
C18_FailedReadRestores ==
    [][(/\ ev.op \in {"fetch", "more"}
        /\ ev.result = Sent
        /\ ev'.op = "error"
        /\ ev'.id = ev.id)
       => state'.currentPage = ev.prePage]_vars

\* C19: where the total page count is unknown, unset or NaN, hasMore()
\* returns null, never true or false
C19_UnknownTotalIsNull ==
    (ev.op = "hasMore" /\ state.totalPages \in {Null, NaN}) =>
        ev.result = Null

----------------------------------------------------------------------------
(* One options object passed to more() again and again: a read, then        *)
(* more( options ) after each success, options.data being what the last    *)
(* call left in it                                                          *)

ReuseInit ==
    /\ serverPages \in 0..MaxServerPages
    /\ reused \in OrderParts
    /\ \E options \in OptionSet, ms \in Bodies : Construct(options, ms)

ReuseNext ==
    \/ \E options \in OptionSet :
          nextId = 1 /\ Fetch(options) /\ UNCHANGED extra
    \/ /\ done # {}
       /\ inflight = {}
       /\ nextId <= MaxReqs + 2
       /\ more(WithData(reused))
       /\ reused' = ev'.data
       /\ UNCHANGED others
    \/ \E r \in inflight, body \in Bodies \ {<<>>} :
          /\ Success(r, Numeral(serverPages), Numeral(MaxObjects), body)
          /\ UNCHANGED extra

ReuseSpec == ReuseInit /\ [][ReuseNext]_vars

\* C20: more( options ) can be repeated with one options object that had no
\* page when first passed: no call leaves a page in the caller's
\* options.data, so every call takes the path without an explicit page
C20_OptionsReusable ==
    /\ ~Has(reused, "page")
    /\ ev.op = "more" => ~ev.callerPage

====
